---- MODULE Spec2Model ----
(***************************************************************************)
(* Forward stepwise regression of webviz_subsurface/plugins/               *)
(* _multiple_regression.py: gen_model, _gen_interaction_df,                *)
(* forward_selected and _model_warnings.                                   *)
(*                                                                         *)
(* A column name is a sequence of one-character strings, so that joining   *)
(* with "*" and splitting on "*" are computed as the code computes them.   *)
(* The numerical content of the dataset is the number of rows n and, for   *)
(* every design matrix the search builds, whether its normal equations     *)
(* invert and the ratio SS_RES / SST of the fit; the ratio is revealed     *)
(* when the matrix is first built and is the same whenever the same        *)
(* columns are fitted again (variable ols).  Scores are exact fractions.   *)
(* The expansion of the dataset by interaction columns is also followed on *)
(* its own (ExpandSpec), on frames that keep the values of their columns.  *)
(* What the callback _update_visualizations does with the value gen_model  *)
(* returns is followed in CallbackSpec, on models whose coefficients and   *)
(* p-values take a few levels.                                             *)
(***************************************************************************)
EXTENDS Integers, Sequences, FiniteSets, TLC

\* ------------------------------------------------------------------ bounds
MaxCols  == 3   \* predictor columns of the (expanded) dataset
MaxRows  == 5   \* rows n of the dataset
MaxVars  == 3   \* largest max_vars passed by a caller
MaxForce == 1   \* longest force_in list passed by a caller
MaxDegree == 1  \* largest interaction_degree passed by a caller
RSteps   == 2   \* SS_RES / SST takes the values 0/RSteps .. RSteps/RSteps
MaxCalls == 2   \* calls of gen_model made by the process
ExpandCols == 3    \* predictor columns of a frame whose expansion is examined
ExpandRows == 2    \* rows of such a frame
ExpandDegree == 3  \* largest degree passed to _gen_interaction_df
MaxSummary == 2    \* predictors of a dataset whose models the callback summarises
PSteps == 1        \* a p-value takes the levels 0 .. PSteps
CSteps == 1        \* a coefficient takes the levels 0 .. CSteps

\* ------------------------------------------------------------------- names
Letters == <<"A", "B", "C", "D", "E">>

Star == "*"

response == <<"y">>

Range(s) == {s[i] : i \in DOMAIN s}

HasStar(name) == \E i \in DOMAIN name : name[i] = Star

\* the names of a combination are joined without the separator
RECURSIVE JoinWithoutSeparator(_)
JoinWithoutSeparator(comb) ==
  IF Len(comb) = 0 THEN <<>>
  ELSE comb[1] \o JoinWithoutSeparator(Tail(comb))

\* "*".join(combination)
RECURSIVE Join(_)
Join(comb) ==
  IF Len(comb) = 0 THEN <<>>
  ELSE IF Len(comb) = 1 THEN comb[1]
  ELSE comb[1] \o <<Star>> \o Join(Tail(comb))

\* name.split("*")
RECURSIVE Split(_)
Split(name) ==
  IF ~HasStar(name) THEN <<name>>
  ELSE LET i == CHOOSE j \in DOMAIN name :
                  /\ name[j] = Star
                  /\ \A k \in 1..(j - 1) : name[k] # Star
       IN  <<SubSeq(name, 1, i - 1)>> \o Split(SubSeq(name, i + 1, Len(name)))

\* itertools.combinations(cols, k), in its lexicographic order
RECURSIVE Combinations(_, _)
Combinations(cols, k) ==
  IF k = 0 THEN << <<>> >>
  ELSE IF Len(cols) < k THEN <<>>
  ELSE LET with == Combinations(Tail(cols), k - 1)
       IN  [i \in 1..Len(with) |-> <<Head(cols)>> \o with[i]]
             \o Combinations(Tail(cols), k)

\* a list holding the elements of a set (list(set(...)): order unspecified
\* and not observable, the list is only used as a column selection)
RECURSIVE SetToList(_)
SetToList(S) ==
  IF S = {} THEN <<>>
  ELSE LET x == CHOOSE y \in S : TRUE IN <<x>> \o SetToList(S \ {x})

\* the response is not dropped before the combinations are taken
KeepResponse(cols) == cols

\* df.drop(columns=response).columns
DropResponse(cols) == SelectSeq(cols, LAMBDA c : c # response)

\* the names collected by the first loop of _gen_interaction_df
RECURSIVE NameCombinations(_, _)
NameCombinations(cols, degree) ==
  IF degree < 1 THEN <<>>
  ELSE NameCombinations(cols, degree - 1)
         \o LET combs == Combinations(DropResponse(cols), degree)
            IN  [i \in 1..Len(combs) |-> Join(combs[i])]

\* newdf[name] = ... : an existing column is overwritten in place, a new
\* one is appended
RECURSIVE AddColumns(_, _)
AddColumns(cols, names) ==
  IF Len(names) = 0 THEN cols
  ELSE AddColumns(IF Head(names) \in Range(cols) THEN cols
                  ELSE Append(cols, Head(names)),
                  Tail(names))

\* _gen_interaction_df(df, response, degree): the columns of the new frame
GenInteractionDf(cols, degree) == AddColumns(cols, NameCombinations(cols, degree))

\* .product(axis=1): the product of row r over the columns items
RECURSIVE RowProduct(_, _, _)
RowProduct(vals, items, r) ==
  IF Len(items) = 0 THEN 1
  ELSE vals[Head(items)][r] * RowProduct(vals, Tail(items), r)

\* the second loop of _gen_interaction_df (lines 712-714), name by name:
\* newdf[name] = newdf.filter(items=name.split("*")).product(axis=1);
\* name.split("*") is never empty, so no name is left out
RECURSIVE AddProducts(_, _, _)
AddProducts(cols, vals, names) ==
  IF Len(names) = 0 THEN vals
  ELSE LET name   == Head(names)
           items  == SelectSeq(Split(name), LAMBDA c : c \in Range(cols))
           column == [r \in DOMAIN vals[response] |-> RowProduct(vals, items, r)]
       IN  AddProducts(AddColumns(cols, <<name>>),
                       (name :> column) @@ vals,
                       Tail(names))

\* _gen_interaction_df(df, response, degree): the values of the new frame
GenInteractionValues(cols, vals, deg) ==
  AddProducts(cols, vals, NameCombinations(cols, deg))

\* the frame is expanded to degree interaction_degree, not one more
GenModelDataSameDegree(cols, deg) ==
  IF deg # 0 THEN GenInteractionDf(cols, deg) ELSE cols

\* the columns of the frame gen_model hands to forward_selected
GenModelData(cols, deg) ==
  IF deg # 0 THEN GenInteractionDf(cols, deg + 1) ELSE cols

\* ------------------------------------------------------------------ scores
\* a score is a fraction <<numerator, denominator>> with denominator > 0
Zero == <<0, 1>>

\* the comparison is taken the other way round
Greater(a, b) == b[1] * a[2] < a[1] * b[2]

Less(a, b) == a[1] * b[2] < b[1] * a[2]

Same(a, b) == a[1] * b[2] = b[1] * a[2]

\* R_2_adj = 1-(1 - (SS_RES / SST))*((n-1)/(n-p-1)), SS_RES / SST = k/RSteps
AdjustedR2(k, rows, p) ==
  <<RSteps * (rows - p - 1) - (RSteps - k) * (rows - 1), RSteps * (rows - p - 1)>>

\* if n - p - 1 < 1
DofGuard(rows, p) == rows - p - 1 < 1

\* scores_with_candidates.sort(key=lambda x: x[0]): stable, ascending
RECURSIVE InsertSorted(_, _)
InsertSorted(sorted, e) ==
  IF Len(sorted) = 0 THEN <<e>>
  ELSE IF Less(e[1], sorted[Len(sorted)][1])
       THEN Append(InsertSorted(SubSeq(sorted, 1, Len(sorted) - 1), e),
                   sorted[Len(sorted)])
       ELSE Append(sorted, e)

RECURSIVE SortByScore(_)
SortByScore(s) ==
  IF Len(s) = 0 THEN <<>>
  ELSE InsertSorted(SortByScore(SubSeq(s, 1, Len(s) - 1)), s[Len(s)])

\* the first element of the sorted list is taken instead of the last
PopFirst(s) == SortByScore(s)[1]

\* scores_with_candidates.pop() after the sort
PopBest(s) == SortByScore(s)[Len(s)]

\* la.inv raised LinAlgError: no ratio
Singular == 0 - 1

Outcomes == {Singular} \cup (0..RSteps)

\* ------------------------------------------------------------------- state
VARIABLES
  n,                      \* len(y): rows of the caller's frame
  columns,                \* df.columns of the caller's frame, response first
  ols,                    \* per fitted column set: Singular or SS_RES/SST level
  pc,                     \* position of the process
  data,                   \* columns of the frame handed to forward_selected
  maxvars,                \* the maxvars argument
  interaction_degree,     \* the interaction_degree argument
  force_in,               \* which list object force_in (and selected) is bound to
  default_force_in,       \* the list object created by "force_in: list=[]"
  caller_force_in,        \* the list object a caller passes as force_in
  remaining,
  current_score,
  best_new_score,
  scores_with_candidates,
  unvisited,              \* candidates "for candidate in remaining" has yet to yield
  candidate,              \* the loop variable, <<>> before the first iteration
  best_candidate,
  model_df,               \* columns of the frame handed to _model_warnings
  result,                 \* what gen_model returned
  force_in_at_call,       \* contents of the force_in list when the call began
  selected_at_round,      \* contents of selected when the current round began
  round_outcome,          \* how the last finished round ended
  exit_path,              \* which return statement of forward_selected is taken
  calls,                  \* calls of gen_model begun so far
  prev_selected,          \* <<s>>: the same call made before returned with selected s
  fit_outcome,            \* how sm.OLS(...).fit() ended in _model_warnings
  degree,                 \* the degree argument of _gen_interaction_df
  df_values,              \* per column of the caller's frame: its values by row
  data_values,            \* per column of the expanded frame: its values by row
  params,                 \* result.params: level of the coefficient per name
  pvalues,                \* result.pvalues: level of the p-value per name
  outputs,                \* what _update_visualizations returned
  reads                   \* the attributes of result the callback has read

vars == <<n, columns, ols, pc, data, maxvars, interaction_degree, force_in,
          default_force_in, caller_force_in, remaining, current_score,
          best_new_score, scores_with_candidates, unvisited, candidate,
          best_candidate, model_df, result, force_in_at_call,
          selected_at_round, round_outcome, exit_path, calls,
          prev_selected, fit_outcome, degree, df_values, data_values,
          params, pvalues, outputs, reads>>

\* selected = force_in: selected is the very list object force_in names
selected == IF force_in = "default" THEN default_force_in ELSE caller_force_in

\* selected.append(...) and friends write through to that list object
SetSelected(new) ==
  /\ default_force_in' = IF force_in = "default" THEN new ELSE default_force_in
  /\ caller_force_in'  = IF force_in = "default" THEN caller_force_in ELSE new

\* data.filter(items=items): the items that are columns of data, in item order
Filter(items) == SelectSeq(items, LAMBDA c : c \in Range(data))

\* the base features of an interaction candidate are left out of its matrix
CurrentModelWithoutBases(sel, c) == sel \o <<c>>

\* the columns of the candidate's model matrix (lines 759-762)
CurrentModel(sel, c) ==
  IF HasStar(c)
  THEN sel \o <<c>> \o SetToList(Range(Split(c)) \ Range(sel))
  ELSE sel \o <<c>>

\* p counted before the candidate's columns are added
PWithoutCandidate(sel, c) == Len(Filter(sel))

\* p = X.shape[1]
P(sel, c) == Len(Filter(CurrentModel(sel, c)))

\* the column set whose normal equations la.inv is asked to invert
Matrix(sel, c) == Range(Filter(CurrentModel(sel, c))) \cup {<<"1">>}

\* the frame built at lines 779-781 and 808-810
ModelDf(sel) == Filter(sel) \o << <<"Intercept">>, <<"response">> >>

\* newdf = df: the expansion writes its columns to the caller's frame
NewdfIsDf == "df"

\* newdf = df.copy() (line 707): the frame the expansion writes to
NewdfIs == "df.copy()"

\* model_df = data.filter(items=selected) (lines 779 and 808) is a frame of
\* its own: the frame that lines 780-781 and 809-810 write to
ModelDfIs == "data.filter()"

\* what lines 780-781 and 809-810 do to the frame data names, which is the
\* caller's frame itself when gen_model did not expand it
ModelDfWrites ==
  LET written == << <<"Intercept">>, <<"response">> >>
  IN  /\ data' = IF ModelDfIs = "data" THEN AddColumns(data, written) ELSE data
      /\ columns' = IF ModelDfIs = "data" /\ interaction_degree = 0
                    THEN AddColumns(columns, written) ELSE columns

\* the while condition of line 750
WhileCondition ==
  /\ remaining # {}
  /\ Same(current_score, best_new_score)
  /\ Len(selected) < maxvars

\* the base features are appended to selected but left in remaining
RECURSIVE PullBasesKeepsRemaining(_, _, _)
PullBasesKeepsRemaining(sel, rem, bases) ==
  IF Len(bases) = 0 THEN <<sel, rem>>
  ELSE LET b == Head(bases)
       IN  PullBasesKeepsRemaining(IF b \in Range(sel) THEN sel ELSE Append(sel, b),
                                   rem,
                                   Tail(bases))

\* a base feature is appended to selected even when it is already there
RECURSIVE PullBasesAppendsAlways(_, _, _)
PullBasesAppendsAlways(sel, rem, bases) ==
  IF Len(bases) = 0 THEN <<sel, rem>>
  ELSE LET b == Head(bases)
       IN  PullBasesAppendsAlways(Append(sel, b), rem \ {b}, Tail(bases))

\* the base features leave remaining but are not appended to selected
RECURSIVE PullBasesRemovesOnly(_, _, _)
PullBasesRemovesOnly(sel, rem, bases) ==
  IF Len(bases) = 0 THEN <<sel, rem>>
  ELSE PullBasesRemovesOnly(sel, rem \ {Head(bases)}, Tail(bases))

\* lines 796-801: pull the base features of the winner
RECURSIVE PullBases(_, _, _)
PullBases(sel, rem, bases) ==
  IF Len(bases) = 0 THEN <<sel, rem>>
  ELSE LET b == Head(bases)
       IN  PullBases(IF b \in Range(sel) THEN sel ELSE Append(sel, b),
                     rem \ {b},
                     Tail(bases))

\* ------------------------------------------------------------------ inputs
Rows == 2..MaxRows

Frames == {<<response>> \o [i \in 1..k |-> <<Letters[i]>>] : k \in 1..MaxCols}

Predictors(cols) == Range(cols) \ {response}

\* duplicate-free lists of at most MaxForce predictors of the frame
RECURSIVE Lists(_, _)
Lists(S, len) ==
  IF len = 0 THEN {<<>>}
  ELSE Lists(S, len - 1) \cup
       {Append(l, x) : l \in {m \in Lists(S, len - 1) : Len(m) = len - 1},
                       x \in S} 

ForceIns(cols) ==
  {l \in Lists(Predictors(cols), MaxForce) : Cardinality(Range(l)) = Len(l)}

\* the callback has returned nothing yet
NoOutputs == [kind |-> "none", table |-> <<>>, p_sorted |-> <<>>,
              coeff_sorted |-> <<>>, arrows |-> <<>>]

\* no call has been made
NoCall ==
  /\ ols = << >>
  /\ pc = "idle"
  /\ data = <<>>
  /\ maxvars = 0
  /\ interaction_degree = 0
  /\ force_in = "default"
  /\ default_force_in = <<>>
  /\ caller_force_in = <<>>
  /\ remaining = {}
  /\ current_score = Zero
  /\ best_new_score = Zero
  /\ scores_with_candidates = <<>>
  /\ unvisited = {}
  /\ candidate = <<>>
  /\ best_candidate = <<>>
  /\ model_df = <<>>
  /\ result = "none"
  /\ force_in_at_call = <<>>
  /\ selected_at_round = <<>>
  /\ round_outcome = "none"
  /\ exit_path = "none"
  /\ calls = 0
  /\ prev_selected = <<>>
  /\ fit_outcome = "none"
  /\ degree = 0
  /\ data_values = << >>
  /\ params = << >>
  /\ pvalues = << >>
  /\ outputs = NoOutputs
  /\ reads = {}

\* the search is followed on frames of which only the columns and the
\* number of rows are kept
Init ==
  /\ n \in Rows
  /\ columns \in Frames
  /\ df_values = << >>
  /\ NoCall

\* the expansion is followed on frames with their values: the response at
\* any position among up to ExpandCols predictors; the values of the
\* response, which the expansion never reads, are all the same
CellValues == {2, 3}

RECURSIVE InsertAt(_, _, _)
InsertAt(s, i, e) == SubSeq(s, 1, i - 1) \o <<e>> \o SubSeq(s, i, Len(s))

ExpandFrames ==
  UNION {{InsertAt([i \in 1..k |-> <<Letters[i]>>], at, response) :
            at \in 1..(k + 1)} : k \in 1..ExpandCols}

ExpandInit ==
  /\ n = ExpandRows
  /\ columns \in ExpandFrames
  /\ df_values \in [Range(columns) -> [1..ExpandRows -> CellValues]]
  /\ df_values[response] = [r \in 1..ExpandRows |-> CHOOSE v \in CellValues : TRUE]
  /\ NoCall

\* ----------------------------------------------------------------- actions
\* gen_model (lines 685-700) up to the first test of the while condition of
\* forward_selected (lines 742-748); binding is the list object force_in names
Enter(binding, list, mv, deg) ==
  LET frame == GenModelData(columns, deg)
  IN  /\ data' = frame
      /\ maxvars' = mv
      /\ interaction_degree' = deg
      /\ force_in' = binding
      /\ default_force_in' = default_force_in
      /\ caller_force_in' = IF binding = "caller" THEN list ELSE caller_force_in
      /\ force_in_at_call' = list
      /\ remaining' = Range(frame) \ (Range(list) \cup {response})
      /\ current_score' = Zero
      /\ best_new_score' = Zero
      /\ scores_with_candidates' = <<>>
      /\ unvisited' = {}
      /\ candidate' = <<>>
      /\ best_candidate' = <<>>
      /\ model_df' = <<>>
      /\ result' = "none"
      /\ selected_at_round' = list
      /\ round_outcome' = "none"
      /\ exit_path' = "none"
      /\ pc' = "while"
      /\ calls' = calls + 1
      /\ fit_outcome' = "none"
      /\ columns' = IF deg # 0 /\ NewdfIs = "df" THEN frame ELSE columns
      /\ UNCHANGED <<n, ols, degree, df_values, data_values,
                 params, pvalues, outputs, reads>>

\* a caller passes force_in (a list object of its own)
GenModel(list, mv, deg) ==
  /\ pc = "idle"
  /\ Cardinality(Predictors(GenModelData(columns, deg))) <= MaxCols
  /\ Enter("caller", list, mv, deg)
  /\ prev_selected' = <<>>

\* a caller omits force_in: the default list object is used
GenModelDefault(mv, deg) ==
  /\ pc = "idle"
  /\ Cardinality(Predictors(GenModelData(columns, deg))) <= MaxCols
  /\ Enter("default", default_force_in, mv, deg)
  /\ prev_selected' = <<>>

\* the caller repeats the call that just ended with identical inputs: the
\* same frame, max_vars and interaction_degree, and force_in omitted again
\* or a new list with the contents passed before
GenModelAgain ==
  /\ pc \in {"returned", "raised"}
  /\ calls < MaxCalls
  /\ Enter(force_in,
           IF force_in = "default" THEN default_force_in ELSE force_in_at_call,
           maxvars, interaction_degree)
  /\ prev_selected' = IF pc = "returned" THEN <<selected>> ELSE <<>>

\* line 750
While ==
  /\ pc = "while"
  /\ IF WhileCondition
     THEN /\ scores_with_candidates' = <<>>
          /\ unvisited' = remaining
          /\ selected_at_round' = selected
          /\ pc' = "for"
          /\ UNCHANGED <<columns, data, model_df, exit_path>>
     ELSE /\ model_df' = ModelDf(selected)
          /\ ModelDfWrites
          /\ exit_path' = "loop"
          /\ pc' = "fit"
          /\ UNCHANGED <<scores_with_candidates, unvisited, selected_at_round>>
  /\ UNCHANGED <<n, ols, maxvars, interaction_degree, force_in,
                 default_force_in, caller_force_in, remaining, current_score,
                 best_new_score, candidate, best_candidate, result,
                 force_in_at_call, round_outcome, calls,
                 prev_selected, fit_outcome, degree, df_values, data_values,
                 params, pvalues, outputs, reads>>

\* the numerical outcome of fitting the matrix of candidate c: what the
\* dataset gave before for the same columns, else any outcome
Reveal(c, v) ==
  LET m == Matrix(selected, c)
  IN  /\ v \in Outcomes
      /\ m \in DOMAIN ols => ols[m] = v
      /\ ols' = IF m \in DOMAIN ols THEN ols ELSE (m :> v) @@ ols

Iterate(c) ==
  /\ pc = "for"
  /\ c \in unvisited
  /\ unvisited' = unvisited \ {c}
  /\ candidate' = c

\* lines 768-772: la.inv raises LinAlgError, continue
SkipSingular(c) ==
  /\ Iterate(c)
  /\ Reveal(c, Singular)
  /\ UNCHANGED <<n, columns, pc, data, maxvars, interaction_degree, force_in,
                 default_force_in, caller_force_in, remaining, current_score,
                 best_new_score, scores_with_candidates, best_candidate,
                 model_df, result, force_in_at_call, selected_at_round,
                 round_outcome, exit_path, calls, prev_selected, fit_outcome,
                 degree, df_values, data_values,
                 params, pvalues, outputs, reads>>

\* the guard skips the candidate (continue) instead of returning
DofHaltSkips(c) ==
  /\ Iterate(c)
  /\ \E k \in 0..RSteps : Reveal(c, k)
  /\ DofGuard(n, P(selected, c))
  /\ UNCHANGED <<n, columns, pc, data, maxvars, interaction_degree, force_in,
                 default_force_in, caller_force_in, remaining, current_score,
                 best_new_score, scores_with_candidates, best_candidate,
                 model_df, result, force_in_at_call, selected_at_round,
                 round_outcome, exit_path, calls, prev_selected, fit_outcome,
                 degree, df_values, data_values,
                 params, pvalues, outputs, reads>>

\* the frame handed over holds the columns of the candidate's matrix
DofHaltFitsCandidate(c) ==
  /\ Iterate(c)
  /\ \E k \in 0..RSteps : Reveal(c, k)
  /\ DofGuard(n, P(selected, c))
  /\ model_df' = ModelDf(CurrentModel(selected, c))
  /\ ModelDfWrites
  /\ exit_path' = "dof"
  /\ pc' = "fit"
  /\ UNCHANGED <<n, maxvars, interaction_degree, force_in,
                 default_force_in, caller_force_in, remaining, current_score,
                 best_new_score, scores_with_candidates, best_candidate,
                 result, force_in_at_call, selected_at_round, round_outcome,
                 calls, prev_selected, fit_outcome, degree, df_values,
                 data_values,
                 params, pvalues, outputs, reads>>

\* lines 774-783: the matrix inverts and n - p - 1 < 1
DofHalt(c) ==
  /\ Iterate(c)
  /\ \E k \in 0..RSteps : Reveal(c, k)
  /\ DofGuard(n, P(selected, c))
  /\ model_df' = ModelDf(selected)
  /\ ModelDfWrites
  /\ exit_path' = "dof"
  /\ pc' = "fit"
  /\ UNCHANGED <<n, maxvars, interaction_degree, force_in,
                 default_force_in, caller_force_in, remaining, current_score,
                 best_new_score, scores_with_candidates, best_candidate,
                 result, force_in_at_call, selected_at_round, round_outcome,
                 calls, prev_selected, fit_outcome,
                 degree, df_values, data_values,
                 params, pvalues, outputs, reads>>

\* lines 785-790: the candidate is scored
Score(c) ==
  /\ Iterate(c)
  /\ ~DofGuard(n, P(selected, c))
  /\ \E k \in 0..RSteps :
       /\ Reveal(c, k)
       /\ scores_with_candidates' =
            Append(scores_with_candidates,
                   <<AdjustedR2(k, n, P(selected, c)), c>>)
  /\ UNCHANGED <<n, columns, pc, data, maxvars, interaction_degree, force_in,
                 default_force_in, caller_force_in, remaining, current_score,
                 best_new_score, best_candidate, model_df, result,
                 force_in_at_call, selected_at_round, round_outcome,
                 exit_path, calls, prev_selected, fit_outcome,
                 degree, df_values, data_values,
                 params, pvalues, outputs, reads>>

\* lines 793-794 with nothing scored: pop from an empty list raises IndexError
PopEmpty ==
  /\ pc = "for"
  /\ unvisited = {}
  /\ scores_with_candidates = <<>>
  /\ pc' = "raised"
  /\ UNCHANGED <<n, columns, ols, data, maxvars, interaction_degree, force_in,
                 default_force_in, caller_force_in, remaining, current_score,
                 best_new_score, scores_with_candidates, unvisited, candidate,
                 best_candidate, model_df, result, force_in_at_call,
                 selected_at_round, round_outcome, exit_path, calls,
                 prev_selected, fit_outcome, degree, df_values, data_values,
                 params, pvalues, outputs, reads>>

\* lines 793-805 when the popped score is greater than current_score
Commit ==
  /\ pc = "for"
  /\ unvisited = {}
  /\ scores_with_candidates # <<>>
  /\ LET best   == PopBest(scores_with_candidates)
         pulled == IF HasStar(best[2])
                   THEN PullBases(selected, remaining, Split(best[2]))
                   ELSE <<selected, remaining>>
     IN  /\ Less(current_score, best[1])
         /\ best_new_score' = best[1]
         /\ best_candidate' = best[2]
         /\ scores_with_candidates' =
              SubSeq(SortByScore(scores_with_candidates), 1,
                     Len(scores_with_candidates) - 1)
         /\ IF best[2] \in pulled[2]
            THEN /\ remaining' = pulled[2] \ {best[2]}
                 /\ SetSelected(Append(pulled[1], best[2]))
                 /\ current_score' = best[1]
                 /\ round_outcome' = "commit"
                 /\ pc' = "while"
            ELSE \* remaining.remove raises KeyError
                 /\ remaining' = pulled[2]
                 /\ SetSelected(pulled[1])
                 /\ current_score' = current_score
                 /\ round_outcome' = "none"
                 /\ pc' = "raised"
  /\ UNCHANGED <<n, columns, ols, data, maxvars, interaction_degree, force_in,
                 unvisited, candidate, model_df, result, force_in_at_call,
                 selected_at_round, exit_path, calls, prev_selected, fit_outcome,
                 degree, df_values, data_values,
                 params, pvalues, outputs, reads>>

\* lines 793-795 when the popped score is not greater than current_score
NoCommit ==
  /\ pc = "for"
  /\ unvisited = {}
  /\ scores_with_candidates # <<>>
  /\ LET best == PopBest(scores_with_candidates)
     IN  /\ ~Less(current_score, best[1])
         /\ best_new_score' = best[1]
         /\ best_candidate' = best[2]
         /\ scores_with_candidates' =
              SubSeq(SortByScore(scores_with_candidates), 1,
                     Len(scores_with_candidates) - 1)
  /\ round_outcome' = "keep"
  /\ pc' = "while"
  /\ UNCHANGED <<n, columns, ols, data, maxvars, interaction_degree, force_in,
                 default_force_in, caller_force_in, remaining, current_score,
                 unvisited, candidate, model_df, result, force_in_at_call,
                 selected_at_round, exit_path, calls, prev_selected, fit_outcome,
                 degree, df_values, data_values,
                 params, pvalues, outputs, reads>>

\* how the fit of line 819 can end: cleanly, with a UserWarning (ignored,
\* line 816), with a RuntimeWarning (raised as an error, line 815) or with
\* an exception
FitOutcomes == {"fitted", "UserWarning", "RuntimeWarning", "Exception"}

\* RuntimeWarning is ignored like UserWarning: the model is returned
ModelWarningsIgnoresRuntimeWarning(outcome) ==
  /\ pc = "fit"
  /\ outcome \in FitOutcomes
  /\ fit_outcome' = outcome
  /\ result' = IF outcome = "Exception" THEN "Failure" ELSE "FittedModel"
  /\ pc' = "returned"
  /\ UNCHANGED <<n, columns, ols, data, maxvars, interaction_degree, force_in,
                 default_force_in, caller_force_in, remaining, current_score,
                 best_new_score, scores_with_candidates, unvisited, candidate,
                 best_candidate, model_df, force_in_at_call,
                 selected_at_round, round_outcome, exit_path, calls,
                 prev_selected, degree, df_values, data_values,
                 params, pvalues, outputs, reads>>

\* _model_warnings (lines 813-824) and the return of gen_model (line 700)
ModelWarnings(outcome) ==
  /\ pc = "fit"
  /\ outcome \in FitOutcomes
  /\ fit_outcome' = outcome
  /\ result' = IF outcome \in {"fitted", "UserWarning"}
               THEN "FittedModel" ELSE "Failure"
  /\ pc' = "returned"
  /\ UNCHANGED <<n, columns, ols, data, maxvars, interaction_degree, force_in,
                 default_force_in, caller_force_in, remaining, current_score,
                 best_new_score, scores_with_candidates, unvisited, candidate,
                 best_candidate, model_df, force_in_at_call,
                 selected_at_round, round_outcome, exit_path, calls,
                 prev_selected, degree, df_values, data_values,
                 params, pvalues, outputs, reads>>

Step ==
  \/ While
  \/ \E c \in unvisited : SkipSingular(c)
  \/ \E c \in unvisited : DofHalt(c)
  \/ \E c \in unvisited : Score(c)
  \/ PopEmpty
  \/ Commit
  \/ NoCommit
  \/ \E outcome \in FitOutcomes : ModelWarnings(outcome)

Next ==
  \/ /\ pc = "idle"
     /\ \E mv \in 1..MaxVars, deg \in 0..MaxDegree :
          \E list \in ForceIns(GenModelData(columns, deg)) :
            GenModel(list, mv, deg)
  \/ \E mv \in 1..MaxVars, deg \in 0..MaxDegree : GenModelDefault(mv, deg)
  \/ GenModelAgain
  \/ Step

Spec == Init /\ [][Next]_vars

\* _gen_interaction_df(df, response, deg) applied to the caller's frame
GenInteractionDfCall(deg) ==
  /\ pc = "idle"
  /\ degree' = deg
  /\ data' = GenInteractionDf(columns, deg)
  /\ data_values' = GenInteractionValues(columns, df_values, deg)
  /\ columns' = IF NewdfIs = "df" THEN data' ELSE columns
  /\ df_values' = IF NewdfIs = "df" THEN data_values' ELSE df_values
  /\ pc' = "expanded"
  /\ UNCHANGED <<n, ols, maxvars, interaction_degree, force_in,
                 default_force_in, caller_force_in, remaining, current_score,
                 best_new_score, scores_with_candidates, unvisited, candidate,
                 best_candidate, model_df, result, force_in_at_call,
                 selected_at_round, round_outcome, exit_path, calls,
                 prev_selected, fit_outcome, params, pvalues, outputs, reads>>

\* gen_model with force_in omitted, up to the first test of the while
\* condition: the frame and the candidate pool the search starts from
GenModelStart(mv, deg) ==
  /\ pc = "idle"
  /\ Enter("default", default_force_in, mv, deg)
  /\ prev_selected' = <<>>

ExpandNext ==
  \/ \E deg \in 1..ExpandDegree : GenInteractionDfCall(deg)
  \/ \E deg \in 0..(ExpandDegree - 1) : GenModelStart(MaxVars, deg)

ExpandSpec == ExpandInit /\ [][ExpandNext]_vars

\* ---------------------------------------------------------------- callback
Intercept == <<"Intercept">>

\* every order in which the elements of S can be listed
RECURSIVE Orders(_)
Orders(S) ==
  IF S = {} THEN {<<>>}
  ELSE UNION {{<<x>> \o o : o \in Orders(S \ {x})} : x \in S}

\* the sort is ascending whatever ascending= says
SortValuesAscending(series, ascending) ==
  {o \in Orders(DOMAIN series) :
     \A i, j \in DOMAIN o : i < j => series[o[i]] <= series[o[j]]}

\* Series.sort_values(ascending=...): the labels of the sorted series; the
\* order of labels with equal values is not specified
SortValues(series, ascending) ==
  {o \in Orders(DOMAIN series) :
     \A i, j \in DOMAIN o :
       i < j => IF ascending THEN series[o[i]] <= series[o[j]]
                ELSE series[o[i]] >= series[o[j]]}

\* .drop(label)
Drop(labels, label) == SelectSeq(labels, LAMBDA x : x # label)

\* the series with the labels in the given order: (label, value) pairs
Series(labels, values) == [i \in DOMAIN labels |-> <<labels[i], values[labels[i]]>>]

\* dict.get of a key that is missing
None == 0 - 1

\* make_arrow_plot, lines 864-866: the coefficient of each parameter of
\* p_sorted, looked up by name in coeff_sorted
CoeffVals(coeff_sorted, p_sorted) ==
  LET params_to_coefs(name) ==
        IF \E i \in DOMAIN coeff_sorted : coeff_sorted[i][1] = name
        THEN coeff_sorted[CHOOSE i \in DOMAIN coeff_sorted :
                            coeff_sorted[i][1] = name][2]
        ELSE None
  IN  [i \in DOMAIN p_sorted |->
         <<p_sorted[i][1], params_to_coefs(p_sorted[i][1])>>]

\* design_matrix.drop(columns="response") (line 819): the names of the model
Exog(df) == Drop(df, <<"response">>)

\* lines 620-625: the rows of the summary table without the Intercept row,
\* reduced to parameter, coefficient and p-value
Table(df, par, pv) ==
  LET names == Drop(Exog(df), Intercept)
  IN  [i \in DOMAIN names |-> <<names[i], par[names[i]], pv[names[i]]>>]

\* the five outputs of lines 602-617
CannotCalculateFit ==
  [kind |-> "Cannot calculate fit for given selection", table |-> <<>>,
   p_sorted |-> <<>>, coeff_sorted |-> <<>>, arrows |-> <<>>]

\* what gen_model can return for the frame: Failure, or a model of a
\* duplicate-free list sel of its predictors with any coefficients and
\* p-values
GenModelReturns(res, sel, par, pv) ==
  /\ res \in {"Failure", "FittedModel"}
  /\ sel \in Lists(Predictors(columns), MaxSummary)
  /\ Cardinality(Range(sel)) = Len(sel)
  /\ IF res = "Failure" THEN par = << >> /\ pv = << >>
     ELSE /\ par \in [Range(sel) \cup {Intercept} -> 0..CSteps]
          /\ pv \in [Range(sel) \cup {Intercept} -> 0..PSteps]

\* the attributes of result are read without the test of line 601
UpdateVisualizationsUnchecked(res, sel, par, pv) ==
  /\ pc = "idle"
  /\ GenModelReturns(res, sel, par, pv)
  /\ data' = columns
  /\ result' = res
  /\ model_df' = sel \o <<Intercept, <<"response">> >>
  /\ params' = par
  /\ pvalues' = pv
  /\ IF res = "Failure"
     THEN /\ reads' = {"model"}
          /\ outputs' = outputs
          /\ pc' = "raised"
     ELSE /\ reads' = {"model", "pvalues", "params"}
          /\ \E ps \in SortValues(pv, TRUE), cs \in SortValues(par, FALSE) :
               LET p_sorted     == Series(Drop(ps, Intercept), pv)
                   coeff_sorted == Series(Drop(cs, Intercept), par)
               IN  outputs' = [kind |-> "Multiple regression",
                               table |-> Table(model_df', par, pv),
                               p_sorted |-> p_sorted,
                               coeff_sorted |-> coeff_sorted,
                               arrows |-> CoeffVals(coeff_sorted, p_sorted)]
          /\ pc' = "rendered"
  /\ UNCHANGED <<n, columns, ols, maxvars, interaction_degree, force_in,
                 default_force_in, caller_force_in, remaining, current_score,
                 best_new_score, scores_with_candidates, unvisited, candidate,
                 best_candidate, force_in_at_call, selected_at_round,
                 round_outcome, exit_path, calls, prev_selected, fit_outcome,
                 degree, df_values, data_values>>

\* _update_visualizations from the call of gen_model on (lines 598-644);
\* gen_model is taken by what it returns
UpdateVisualizations(res, sel, par, pv) ==
  /\ pc = "idle"
  /\ GenModelReturns(res, sel, par, pv)
  /\ data' = columns
  /\ result' = res
  /\ model_df' = sel \o <<Intercept, <<"response">> >>
  /\ params' = par
  /\ pvalues' = pv
  /\ IF res = "Failure"
     THEN /\ reads' = {}
          /\ outputs' = CannotCalculateFit
     ELSE /\ reads' = {"model", "pvalues", "params"}
          /\ \E ps \in SortValues(pv, TRUE), cs \in SortValues(par, FALSE) :
               LET p_sorted     == Series(Drop(ps, Intercept), pv)
                   coeff_sorted == Series(Drop(cs, Intercept), par)
               IN  outputs' = [kind |-> "Multiple regression",
                               table |-> Table(model_df', par, pv),
                               p_sorted |-> p_sorted,
                               coeff_sorted |-> coeff_sorted,
                               arrows |-> CoeffVals(coeff_sorted, p_sorted)]
  /\ pc' = "rendered"
  /\ UNCHANGED <<n, columns, ols, maxvars, interaction_degree, force_in,
                 default_force_in, caller_force_in, remaining, current_score,
                 best_new_score, scores_with_candidates, unvisited, candidate,
                 best_candidate, force_in_at_call, selected_at_round,
                 round_outcome, exit_path, calls, prev_selected, fit_outcome,
                 degree, df_values, data_values>>

\* the callback is followed on one frame of MaxSummary predictors
CallbackInit ==
  /\ n = MaxRows
  /\ columns = <<response>> \o [i \in 1..MaxSummary |-> <<Letters[i]>>]
  /\ df_values = << >>
  /\ NoCall

CallbackNext ==
  /\ pc = "idle"
  /\ \E res \in {"Failure", "FittedModel"} :
       \E sel \in Lists(Predictors(columns), MaxSummary) :
         \E par \in IF res = "Failure" THEN {<< >>}
                    ELSE [Range(sel) \cup {Intercept} -> 0..CSteps] :
           \E pv \in IF res = "Failure" THEN {<< >>}
                     ELSE [Range(sel) \cup {Intercept} -> 0..PSteps] :
             UpdateVisualizations(res, sel, par, pv)

CallbackSpec == CallbackInit /\ [][CallbackNext]_vars

\* the interpreter keeps executing a call that has begun; one frame of two
\* predictors, so that the behaviours of a call can be followed to their end
FairInit == Init /\ n = MaxRows - 1 /\ Len(columns) = 3

FairSpec == FairInit /\ [][Next]_vars /\ WF_vars(Step)

\* ------------------------------------------------------------------ claims
Terminal == pc \in {"returned", "raised"}

\* C1: every call of gen_model that has entered the search loop reaches a
\* terminal state: the search does not go on scoring rounds forever.
EveryCallTerminates == (pc = "while") ~> Terminal

\* C2: no exception escapes gen_model: a call never ends by raising.
NoExceptionEscapes == pc # "raised"

\* C3: when no more than max_vars predictors are forced in, the final model
\* is fit on at most max_vars selected predictors.
MaxVarsBoundsSelected ==
  (pc = "fit" /\ Len(force_in_at_call) <= maxvars) => Len(selected) <= maxvars

\* C4: a call repeated with identical inputs returns a model on the identical
\* selected-predictor sequence.
SameInputsSameSelection ==
  (pc = "returned" /\ prev_selected # <<>>) => selected = prev_selected[1]

\* C5: a round whose best score is not greater than the current score commits
\* nothing and is the last round: the loop is left when it ends.
NonImprovingRoundHalts ==
  (pc = "while" /\ round_outcome = "keep")
    => (selected = selected_at_round /\ ~WhileCondition)

\* C6: a round in which every candidate was singular ends the search as
\* converged: the final model is fit on the unchanged selected set.
AllSingularRound ==
  pc = "for" /\ unvisited = {} /\ scores_with_candidates = <<>>

AllSingularConverges ==
  [][AllSingularRound
       => /\ pc' = "fit"
          /\ model_df' = ModelDf(selected)
          /\ default_force_in' = default_force_in
          /\ caller_force_in' = caller_force_in]_vars

\* the for loop yields a candidate whose matrix has n - p - 1 < 1
DofCandidateMet ==
  /\ pc = "for"
  /\ unvisited' # unvisited
  /\ n - Len(Filter(CurrentModel(selected, candidate'))) - 1 < 1

\* the search ends there, on the predictors selected before the round
HaltsOnRoundStart ==
  /\ pc' = "fit"
  /\ model_df' = ModelDf(selected_at_round)
  /\ selected' = selected_at_round
  /\ remaining' = remaining
  /\ current_score' = current_score
  /\ scores_with_candidates' = scores_with_candidates

\* C7 as stated: every candidate met with n - p - 1 < 1 halts the search at
\* once, nothing committed, the model fit on the round's starting selection.
EveryDofCandidateHalts == [][DofCandidateMet => HaltsOnRoundStart]_vars

\* C7 amended: a candidate met with n - p - 1 < 1 whose normal equations
\* invert halts the search at once, nothing committed, the model fit on the
\* round's starting selection (a singular one is skipped like any other).
InvertibleDofCandidateHalts ==
  [][(DofCandidateMet /\ ols'[Matrix(selected, candidate')] # Singular)
       => HaltsOnRoundStart]_vars

\* C7 witness: the guard halted a round in which an earlier candidate had
\* scored above the current score.
DofHaltAfterImprovingScore ==
  /\ pc = "fit"
  /\ exit_path = "dof"
  /\ \E i \in DOMAIN scores_with_candidates :
       Less(current_score, scores_with_candidates[i][1])

\* C8: after every commit at least one residual degree of freedom is left:
\* n - |selected| - 1 >= 1.
CommitLeavesOneDof ==
  (pc = "while" /\ round_outcome = "commit") => n - Len(selected) - 1 >= 1

\* C8 witness: max_vars exceeds n - 2, a candidate was committed and the
\* guard then halted the search.
DofHaltAfterCommit ==
  /\ pc = "fit"
  /\ exit_path = "dof"
  /\ maxvars > n - 2
  /\ round_outcome = "commit"
  /\ n - Len(selected) - 1 = 1

\* C9: a commit of an interaction term appends to selected its base features
\* not yet selected, in the order of the term, then the term; afterwards the
\* term and its base features are all selected and none is in remaining.
InteractionCommit ==
  (pc = "while" /\ round_outcome = "commit" /\ HasStar(best_candidate))
    => LET bases == Split(best_candidate)
           new   == SelectSeq(bases, LAMBDA b : b \notin Range(selected_at_round))
       IN  /\ selected = selected_at_round \o new \o <<best_candidate>>
           /\ Range(bases) \cup {best_candidate} \subseteq Range(selected)
           /\ (Range(bases) \cup {best_candidate}) \cap remaining = {}

\* C9 witness: an interaction term won with neither base feature selected.
InteractionCommitPullsBoth ==
  /\ pc = "while"
  /\ round_outcome = "commit"
  /\ HasStar(best_candidate)
  /\ Len(selected) = Len(selected_at_round) + 3

\* the case of C10: force_in empty, no interaction expansion, max_vars = 1
MaxVarsOneCase ==
  /\ pc = "fit"
  /\ force_in_at_call = <<>>
  /\ interaction_degree = 0
  /\ maxvars = 1

\* what the dataset gives for candidate c fitted alone
Alone(c) == {c, <<"1">>}

ScoredAlone(c) == Alone(c) \in DOMAIN ols /\ ols[Alone(c)] # Singular

SingularAlone(c) == Alone(c) \in DOMAIN ols /\ ols[Alone(c)] = Singular

ScoreAlone(c) ==
  <<RSteps * (n - 2) - (RSteps - ols[Alone(c)]) * (n - 1), RSteps * (n - 2)>>

\* c scores at least as high as every candidate that can be scored
MaximalAlone(c) ==
  /\ ScoredAlone(c)
  /\ \A d \in Predictors(data) :
       ScoredAlone(d) => ~Less(ScoreAlone(c), ScoreAlone(d))

FinalizerFailsOnWarning ==
  /\ fit_outcome \in {"RuntimeWarning", "Exception"}
       => (pc = "returned" /\ result = "Failure")
  /\ result = "FittedModel" => fit_outcome \in {"fitted", "UserWarning"}

\* C11 witness: the fit of a model with a selected predictor raised a
\* RuntimeWarning and the call returned Failure.
RuntimeWarningReturnedFailure ==
  /\ pc = "returned"
  /\ fit_outcome = "RuntimeWarning"
  /\ result = "Failure"
  /\ selected # <<>>

\* C12: when a call has ended, the force_in list holds the names it held when
\* the call began, and the default list of an omitted force_in is empty.
ForceInListUnchanged ==
  /\ Terminal => selected = force_in_at_call
  /\ default_force_in = <<>>

\* C13: no step of a call, from the expansion through the rounds to the
\* finalization on either return path, changes the caller's frame.
CallerDatasetUnmodified == [][columns' = columns]_vars

\* C13 witness: a call that expanded the dataset has returned through the
\* DOF-guard exit, and the caller's frame holds no interaction column.
ExpandedCallReturnedOnDofPath ==
  /\ pc = "returned"
  /\ exit_path = "dof"
  /\ interaction_degree > 0
  /\ \E c \in Range(data) : HasStar(c)
  /\ \A c \in Range(columns) : ~HasStar(c)

\* the non-response columns of the caller's frame
Bases == Range(columns) \ {response}

\* the combinations of at least 2 and at most d distinct base columns
CombinationsUpTo(d) ==
  {S \in SUBSET Bases : 2 <= Cardinality(S) /\ Cardinality(S) <= d}

\* the name of a combination: its names, in column order, joined with "*"
NameOf(S) == Join(SelectSeq(columns, LAMBDA c : c \in S))

RECURSIVE ProductOver(_, _)
ProductOver(S, r) ==
  IF S = {} THEN 1
  ELSE LET c == CHOOSE x \in S : TRUE
       IN  df_values[c][r] * ProductOver(S \ {c}, r)

\* C14: the frame _gen_interaction_df returns has exactly the original
\* columns and one column per combination of 2..degree distinct non-response
\* original columns, named by the "*"-join; an added column holds the row
\* products of its combination and the original columns keep their values.
ExpandAddsProductColumns ==
  pc = "expanded"
    => /\ Range(data) = Range(columns) \cup {NameOf(S) : S \in CombinationsUpTo(degree)}
       /\ Len(data) = Len(columns) + Cardinality(CombinationsUpTo(degree))
       /\ DOMAIN data_values = Range(data)
       /\ \A c \in Range(columns) : data_values[c] = df_values[c]
       /\ \A S \in CombinationsUpTo(degree) :
            \A r \in 1..n : data_values[NameOf(S)][r] = ProductOver(S, r)

\* C14 witness: an expansion to degree 3 of three predictors, the response
\* between them, added the column of all three with rows that differ.
ExpandedThreeOfThree ==
  /\ pc = "expanded"
  /\ degree = 3
  /\ Cardinality(Bases) = 3
  /\ columns[2] = response
  /\ \E c \in Range(data) :
       /\ Len(Split(c)) = 3
       /\ data_values[c][1] = 12
       /\ data_values[c][2] = 18

\* C15: with interaction_degree = 0 the search starts on the caller's
\* columns and no interaction term is a candidate; with interaction_degree
\* = k > 0 every interaction term of 2..k+1 base columns is a candidate and
\* no column has more than k+1 base columns.
SearchStartsOnExpansion ==
  (pc = "while" /\ round_outcome = "none" /\ force_in_at_call = <<>>)
    => IF interaction_degree = 0
       THEN /\ data = columns
            /\ remaining = Bases
       ELSE /\ remaining =
                 Bases \cup {NameOf(S) : S \in CombinationsUpTo(interaction_degree + 1)}
            /\ remaining = Range(data) \ {response}
            /\ \A c \in remaining : Len(Split(c)) <= interaction_degree + 1

\* C15 witness: a search with interaction_degree = 1 started on three base
\* columns and their three pairs, without the term of all three.
SearchStartsOnPairs ==
  /\ pc = "while"
  /\ interaction_degree = 1
  /\ Cardinality(Bases) = 3
  /\ Cardinality(remaining) = 6

\* a round has ended with the sort and the pop of lines 793-794
RoundEnded == pc = "while" /\ round_outcome \in {"commit", "keep"}

\* the order of names as strings: character by character, "*" before the
\* letters, a proper prefix before its extensions
Rank(ch) == IF ch = Star THEN 0 ELSE CHOOSE i \in DOMAIN Letters : Letters[i] = ch

RECURSIVE NameLess(_, _)
NameLess(a, b) ==
  IF Len(a) = 0 THEN Len(b) > 0
  ELSE IF Len(b) = 0 THEN FALSE
  ELSE IF a[1] = b[1] THEN NameLess(Tail(a), Tail(b))
  ELSE Rank(a[1]) < Rank(b[1])

\* C16: the winner of a round is the last of the scored candidates in the
\* ascending order of (score, name): every other scored candidate has a
\* smaller score, or the same score and a smaller name.
WinnerIsLastByScoreAndName ==
  RoundEnded
    => \A i \in DOMAIN scores_with_candidates :
         LET other == scores_with_candidates[i]
         IN  \/ Less(other[1], best_new_score)
             \/ /\ Same(other[1], best_new_score)
                /\ NameLess(other[2], best_candidate)

\* C17: within a search the current score starts at 0.0 and a step either
\* leaves it as it is or is a commit that raises it to the strictly greater
\* score of the committed candidate.
ScoreRisesOnlyOnCommit ==
  [][IF calls' # calls
     THEN current_score' = <<0, 1>>
     ELSE \/ current_score' = current_score
          \/ /\ pc = "for"
             /\ round_outcome' = "commit"
             /\ current_score[1] * current_score'[2]
                  < current_score'[1] * current_score[2]
             /\ current_score' = best_new_score'
             /\ selected' # selected
             /\ selected'[Len(selected')] = best_candidate']_vars

\* C17 witness: a second commit of a search raised a score that a first
\* commit had raised above 0.
SecondCommitRaisedScore ==
  /\ pc = "while"
  /\ round_outcome = "commit"
  /\ Len(selected) = Len(force_in_at_call) + 2
  /\ ~HasStar(best_candidate)
  /\ Less(Zero, current_score)

\* C18: the frame handed to _model_warnings holds the columns of selected,
\* an Intercept column and the response as target, whichever return
\* statement of forward_selected is taken.
FinalizerGetsSelectedAndIntercept ==
  pc = "fit"
    => model_df = selected \o << <<"Intercept">>, <<"response">> >>

\* C18 witness: with a predictor selected, the guard halted a round on an
\* interaction term with a base feature that is not selected, after another
\* candidate had been scored.
DofHaltOnInteractionTerm ==
  /\ pc = "fit"
  /\ exit_path = "dof"
  /\ HasStar(candidate)
  /\ \E b \in Range(Split(candidate)) : b \notin Range(selected)
  /\ selected # <<>>
  /\ scores_with_candidates # <<>>

\* the for loop yields a candidate whose normal equations do not invert
SingularCandidateMet ==
  /\ pc = "for"
  /\ unvisited' # unvisited
  /\ ols'[Matrix(selected, candidate')] = Singular

\* the round ends after a candidate of it was found singular
RoundWithSingularEnds ==
  /\ pc = "for"
  /\ unvisited = {}
  /\ pc' # "for"
  /\ \E c \in remaining :
       /\ Matrix(selected, c) \in DOMAIN ols
       /\ ols[Matrix(selected, c)] = Singular

\* C19: a singular candidate gets no score, stays in the pool and leaves the
\* loop running for the candidates not yet visited; the round then ends and
\* the search goes on to the next test of the loop, the winner being a
\* candidate that was scored.
SingularCandidateIsSkipped ==
  [][/\ SingularCandidateMet
          => /\ pc' = "for"
             /\ scores_with_candidates' = scores_with_candidates
             /\ remaining' = remaining
             /\ candidate' \in remaining'
             /\ unvisited' = unvisited \ {candidate'}
             /\ selected' = selected
     /\ RoundWithSingularEnds
          => /\ pc' = "while"
             /\ ols[Matrix(selected, best_candidate')] # Singular]_vars

\* what the caller supplied as force_in: nothing when it was omitted
Supplied == IF force_in = "default" THEN <<>> ELSE force_in_at_call

\* C20: a search starts with current score 0.0, selected the supplied
\* force_in sequence and remaining the columns other than the response and
\* the forced-in ones; afterwards selected only grows by appending.
SearchStartsFromForceIn ==
  /\ [](pc \in {"while", "for", "fit", "returned", "raised"}
          => /\ SubSeq(selected, 1, Len(Supplied)) = Supplied
             /\ (pc = "while" /\ round_outcome = "none")
                  => /\ current_score = Zero
                     /\ selected = Supplied
                     /\ remaining = Range(data) \ ({response} \cup Range(Supplied)))
  /\ [][calls' = calls
          => /\ Len(selected) <= Len(selected')
             /\ SubSeq(selected', 1, Len(selected)) = selected]_vars

\* the base features of candidate c that are not in the list sel
UnselectedBases(sel, c) ==
  IF HasStar(c) THEN Range(Split(c)) \ Range(sel) ELSE {}

\* C21: a step that visits a candidate leaves selected and remaining as they
\* were when the round began; a score it appends is the adjusted R2 for
\* p = |selected| + 1 + the number of the candidate's unselected base
\* features; selected changes only by a commit, and then by the winner and
\* base features of the winner.
ScoringDoesNotCommit ==
  [][/\ (pc = "for" /\ unvisited' # unvisited)
          => /\ selected = selected_at_round
             /\ selected' = selected
             /\ remaining' = remaining
             /\ scores_with_candidates' # scores_with_candidates
                  => LET c == candidate'
                         p == Len(selected) + 1
                                + Cardinality(UnselectedBases(selected, c))
                         k == ols'[Matrix(selected, c)]
                     IN  scores_with_candidates' =
                           Append(scores_with_candidates,
                                  << <<RSteps * (n - p - 1) - (RSteps - k) * (n - 1),
                                       RSteps * (n - p - 1)>>, c >>)
     /\ (calls' = calls /\ selected' # selected)
          => /\ pc = "for"
             /\ unvisited = {}
             /\ round_outcome' = "commit"
             /\ Range(selected') \ Range(selected)
                  = {best_candidate'} \cup UnselectedBases(selected, best_candidate')]_vars

\* C21 witness: with a predictor selected, an interaction term with a base
\* feature that is not selected has just been scored.
InteractionTermScored ==
  /\ pc = "for"
  /\ selected # <<>>
  /\ UnselectedBases(selected, candidate) # {}
  /\ scores_with_candidates # <<>>
  /\ scores_with_candidates[Len(scores_with_candidates)][2] = candidate

\* a search is about to test the while condition for the first time
SearchStart == pc = "while" /\ round_outcome = "none"

\* C22: a round is run only with remaining non-empty and fewer than max_vars
\* predictors selected; a search that starts with an empty candidate pool,
\* or with at least max_vars predictors forced in, scores nothing and hands
\* the forced-in predictors alone to the final fit.
RoundsOnlyWhileRoom ==
  /\ [](pc = "for" => (remaining # {} /\ Len(selected) < maxvars))
  /\ [][(SearchStart /\ (remaining = {} \/ Len(Supplied) >= maxvars))
          => /\ pc' = "fit"
             /\ ols' = ols
             /\ model_df' = Supplied \o << <<"Intercept">>, <<"response">> >>]_vars

\* C23: when gen_model returned Failure the callback returns the 'Cannot
\* calculate fit for given selection' outputs, reads no attribute of the
\* result and does not raise; the table and the sorted series are produced
\* only from a FittedModel.
FailureRendersPlaceholders ==
  /\ result = "Failure"
       => /\ pc = "rendered"
          /\ outputs = CannotCalculateFit
          /\ reads = {}
  /\ (outputs.table # <<>> \/ outputs.p_sorted # <<>>
        \/ outputs.coeff_sorted # <<>> \/ reads # {})
       => result = "FittedModel"

\* C23 witness: gen_model returned Failure for a selection of two predictors
\* and the callback has returned.
FailureRendered ==
  /\ pc = "rendered"
  /\ result = "Failure"
  /\ Len(model_df) = 4
  /\ outputs.kind = "Cannot calculate fit for given selection"

\* C24: for a FittedModel the p-values are listed in ascending order and the
\* coefficients in descending order, neither lists the intercept, and both
\* are keyed by the predictors of the model, each paired with its own
\* coefficient.
SummarySorted ==
  result = "FittedModel"
    => LET ps == outputs.p_sorted
           cs == outputs.coeff_sorted
           predictors == Range(model_df) \ {<<"Intercept">>, <<"response">>}
       IN  /\ \A i, j \in DOMAIN ps : i < j => ps[i][2] <= ps[j][2]
           /\ \A i, j \in DOMAIN cs : i < j => cs[i][2] >= cs[j][2]
           /\ {ps[i][1] : i \in DOMAIN ps} = predictors
           /\ {cs[i][1] : i \in DOMAIN cs} = predictors
           /\ Len(ps) = Cardinality(predictors)
           /\ Len(cs) = Cardinality(predictors)
           /\ \A i \in DOMAIN ps : ps[i][2] = pvalues[ps[i][1]]
           /\ \A i \in DOMAIN cs : cs[i][2] = params[cs[i][1]]
           /\ outputs.arrows = [i \in DOMAIN ps |-> <<ps[i][1], params[ps[i][1]]>>]

\* C24 witness: a model of two predictors whose p-values and coefficients
\* differ, the one of smaller p-value having the smaller coefficient, and
\* whose intercept has the largest coefficient.
SummaryOfTwoPredictors ==
  /\ pc = "rendered"
  /\ result = "FittedModel"
  /\ Len(outputs.p_sorted) = 2
  /\ outputs.p_sorted[1][2] < outputs.p_sorted[2][2]
  /\ outputs.coeff_sorted[1][1] = outputs.p_sorted[2][1]
  /\ outputs.coeff_sorted[1][2] > outputs.coeff_sorted[2][2]
  /\ params[<<"Intercept">>] >= outputs.coeff_sorted[1][2]

\* the columns _gen_interaction_df added to the caller's frame
InteractionColumns == {data[i] : i \in (Len(columns) + 1)..Len(data)}

\* C25: on a frame whose column names hold no "*", splitting the name of an
\* interaction column on "*" gives the distinct base columns whose row
\* product the column holds; the combinations of 2..degree base columns
\* have as many distinct names as there are combinations; and no
\* interaction column has the name of an original column.
InteractionNamesDecompose ==
  pc = "expanded"
    => /\ \A c \in InteractionColumns :
            LET parts == Split(c)
            IN  /\ Range(parts) \in CombinationsUpTo(degree)
                /\ Len(parts) = Cardinality(Range(parts))
                /\ \A r \in 1..n : data_values[c][r] = ProductOver(Range(parts), r)
                /\ c \notin Range(columns)
       /\ \A S \in CombinationsUpTo(degree) :
            \E c \in InteractionColumns : Range(Split(c)) = S
       /\ \A c, d \in InteractionColumns :
            Range(Split(c)) = Range(Split(d)) => c = d
       /\ Cardinality(InteractionColumns) = Cardinality(CombinationsUpTo(degree))
       /\ Cardinality(Range(data)) = Len(data)

\* C25 witness: an expansion to degree 2 of three base columns after the
\* response added their three pairs and no triple.
ExpandedThreePairs ==
  /\ pc = "expanded"
  /\ degree = 2
  /\ columns[1] = response
  /\ Cardinality(InteractionColumns) = 3
  /\ \A c \in InteractionColumns : Len(Split(c)) = 2

\* force_in as forward_selected received it has no duplicates and does not
\* hold the response
ForceInWellFormed ==
  /\ Cardinality(Range(force_in_at_call)) = Len(force_in_at_call)
  /\ response \notin Range(force_in_at_call)

\* C26: given a duplicate-free force_in without the response, whenever the
\* while condition is about to be tested and when the search has ended,
\* selected and remaining are disjoint, selected has no duplicates and
\* together they hold every column of the dataset but the response; within
\* a call remaining never gains an element.
SelectedAndRemainingPartition ==
  /\ []((pc \in {"while", "fit", "returned"} /\ ForceInWellFormed)
          => /\ Range(selected) \cap remaining = {}
             /\ Cardinality(Range(selected)) = Len(selected)
             /\ Range(selected) \cup remaining = Range(data) \ {response})
  /\ [][(calls' = calls /\ ForceInWellFormed) => remaining' \subseteq remaining]_vars

\* C26 witness: a search given one forced-in predictor has committed an
\* interaction term one of whose base features was already selected and
\* the other was pulled from remaining.
PartitionAfterPullingOneBase ==
  /\ pc = "while"
  /\ round_outcome = "commit"
  /\ Len(force_in_at_call) = 1
  /\ force_in = "caller"
  /\ HasStar(best_candidate)
  /\ force_in_at_call[1] \in Range(Split(best_candidate))
  /\ Len(selected) = 3
  /\ selected[1] = force_in_at_call[1]

\* C27: when the caller's force_in holds no interaction term, each base
\* feature of every interaction term in selected stands at an earlier
\* position of selected, and none of them is in remaining.
BasesPrecedeInteractionTerm ==
  (pc \in {"while", "for", "fit", "returned"}
     /\ \A c \in Range(Supplied) : ~HasStar(c))
    => \A i \in DOMAIN selected :
         HasStar(selected[i])
           => \A b \in Range(Split(selected[i])) :
                /\ \E j \in 1..(i - 1) : selected[j] = b
                /\ b \notin remaining

\* C27 witness: a search given one base feature as force_in committed an
\* interaction term of it, which pulled the other base feature in front of
\* itself, and has returned.
InteractionTermAfterItsBases ==
  /\ pc = "returned"
  /\ calls = 1
  /\ Len(Supplied) = 1
  /\ ~HasStar(Supplied[1])
  /\ Len(selected) = 3
  /\ HasStar(selected[3])
  /\ Range(Split(selected[3])) = {selected[1], selected[2]}
  /\ remaining = {}

====
